---- MODULE Spec2Model ----
(***************************************************************************)
(* WebsiteCrawler of wolf-spider.py: the crawl() loop over the two sets    *)
(* visited_links / to_visit_links, find_links_on_page, is_valid_url,       *)
(* fetch_page and save_page_as_pdf.  URLs are the records urlparse yields  *)
(* (scheme, netloc, path, fragment); a path is its sequence of segments.   *)
(***************************************************************************)
EXTENDS Naturals, Sequences, FiniteSets, TLC

\* ---------------------------------------------------------------- bounds
\* number of <a href> tags of the whole site
MaxLinks == 3
\* the per-URL call counters (attempts, marks) saturate here
CountCap == 2
\* pbar.n saturates here; more pops than any run of the program performs
MaxPops == 2 * MaxLinks + 3

\* ---------------------------------------------------------------- URLs
URL(s, n, p, f) == [scheme |-> s, netloc |-> n, path |-> p, fragment |-> f]

Schemes == {"http", "https", "ftp"}
Netlocs == {"a.com", "b.com"}
Paths == {<< >>, <<"x">>}
Fragments == {"", "s1", "s2"}

AllURLs == [scheme : Schemes, netloc : Netlocs, path : Paths, fragment : Fragments]

\* the root URLs typed at the prompt
Roots ==
    { URL("http", "a.com", << >>, ""),
      URL("http", "a.com", <<"x">>, "s1"),
      URL("https", "a.com", << >>, ""),
      URL("http", "b.com", <<"x">>, ""),
      URL("ftp", "a.com", << >>, "") }

\* urldefrag(url)[0]: the URL without its fragment
urldefrag(url) == [url EXCEPT !.fragment = ""]

\* ---------------------------------------------------------------- hrefs
\* An href is absolute ("abs": a whole URL), an absolute path ("path":
\* "/x", "/x#s1") or a bare fragment ("frag": "#s1").
AbsHref(u) == [kind |-> "abs", scheme |-> u.scheme, netloc |-> u.netloc,
               path |-> u.path, fragment |-> u.fragment]
PathHref(p, f) == [kind |-> "path", scheme |-> "", netloc |-> "",
                   path |-> p, fragment |-> f]
FragHref(f) == [kind |-> "frag", scheme |-> "", netloc |-> "",
                path |-> << >>, fragment |-> f]

Hrefs ==
    { AbsHref(URL("http", "a.com", << >>, "")),
      AbsHref(URL("http", "a.com", <<"x">>, "")),
      AbsHref(URL("http", "b.com", <<"x">>, "")),
      AbsHref(URL("ftp", "a.com", <<"x">>, "")),
      PathHref(<<"x">>, "s2"),
      FragHref("s2") }

\* urljoin(base, href)
urljoin(base, href) ==
    CASE href.kind = "abs" ->
           URL(href.scheme, href.netloc, href.path, href.fragment)
      [] href.kind = "path" ->
           URL(base.scheme, base.netloc, href.path, href.fragment)
      [] href.kind = "frag" ->
           URL(base.scheme, base.netloc, base.path, href.fragment)

\* the href sequences of at most k links
Contents(k) == UNION { [1..n -> Hrefs] : n \in 0..k }

\* ---------------------------------------------------------------- state
VARIABLES
    root_url,        \* self.root_url
    domain_name,     \* self.domain_name (= self.output_dir)
    visited_links,   \* self.visited_links
    to_visit_links,  \* self.to_visit_links
    files,           \* the PDF files on disk: filename -> the URL rendered into it
    pbar_n,          \* pbar.n
    pbar_total,      \* pbar.total
    pc,              \* position in crawl(): "loop", "fetch", "links", "done"
    current_url,     \* current_url of the running iteration
    page_links,      \* the <a href> values find_links_on_page has still to process
    site,            \* the web site: page (URL without fragment) -> its hrefs, as served so far
    attempts,        \* per URL: the number of fetch_page calls
    marks,           \* per URL: the number of visited_links.add calls
    accepted,        \* the URLs that have ever been in to_visit_links
    failed,          \* the URLs whose fetch_page has returned None
    succeeded,       \* the URLs whose fetch_page has returned the page text
    pendingAtFail,   \* the URLs that were in to_visit_links when some fetch failed
    expanded,        \* the URLs whose find_links_on_page has completed
    written,         \* the filenames pdfkit.from_url has written in this run
    first_run        \* what an earlier, completed run of the program left behind

vars == << root_url, domain_name, visited_links, to_visit_links, files, pbar_n,
           pbar_total, pc, current_url, page_links, site, attempts, marks,
           accepted, failed, succeeded, pendingAtFail, expanded, written,
           first_run >>

NoURL == URL("", "", << >>, "")

Min(a, b) == IF a < b THEN a ELSE b

RECURSIVE SumLen(_, _)
SumLen(f, S) ==
    IF S = {} THEN 0
    ELSE LET p == CHOOSE q \in S : TRUE IN Len(f[p]) + SumLen(f, S \ {p})

\* the number of links of the pages served so far
LinksUsed == SumLen(site, DOMAIN site)

\* what the server holds for a page: the page as it was at an earlier request
\* (a static site), or, at its first request, any page the link budget allows
PageChoices(page) ==
    IF page \in DOMAIN site THEN {site[page]} ELSE Contents(MaxLinks - LinksUsed)

\* ---------------------------------------------------------------- helpers
\* is_valid_url that tests the scheme alone
is_valid_url_SchemeOnly(url) ==
    url.scheme \in {"http", "https"}

\* is_valid_url(url)
is_valid_url(url) ==
    url.scheme \in {"http", "https"} /\ url.netloc = domain_name

\* line 133 testing to_visit_links alone
NotKnownPendingOnly(url) == url \notin to_visit_links

\* the test of line 133
NotKnown(url) == url \notin visited_links /\ url \notin to_visit_links

\* get_pdf_filename(url): the path without its slashes, joined by "_";
\* the name is kept as the sequence of the joined segments
get_pdf_filename(url) ==
    [dir |-> domain_name,
     name |-> IF url.path = << >> THEN <<"index">> ELSE url.path]

\* an existence test that never finds the file
pdf_exists_Never(filename) == FALSE

\* an existence test that always finds the file
pdf_exists_Always(filename) == TRUE

\* line 91: os.path.exists(filename)
pdf_exists(filename) == filename \in DOMAIN files

\* save_page_as_pdf(url): nothing when the file exists, else pdfkit writes it
save_page_as_pdf(url) ==
    LET filename == get_pdf_filename(url)
    IN IF pdf_exists(filename) THEN files ELSE (filename :> url) @@ files

\* the filenames written once save_page_as_pdf(url) has returned
written_after(url) ==
    LET filename == get_pdf_filename(url)
    IN IF pdf_exists(filename) THEN written ELSE written \cup {filename}

\* ---------------------------------------------------------------- __init__
Init ==
    /\ root_url \in Roots
    /\ domain_name = root_url.netloc
    /\ visited_links = {}
    /\ to_visit_links = {root_url}
    /\ files = << >>
    /\ pbar_n = 0
    /\ pbar_total = 1
    /\ pc = "loop"
    /\ current_url = NoURL
    /\ page_links = << >>
    /\ site = << >>
    /\ attempts = [u \in AllURLs |-> 0]
    /\ marks = [u \in AllURLs |-> 0]
    /\ accepted = {root_url}
    /\ failed = {}
    /\ succeeded = {}
    /\ pendingAtFail = {}
    /\ expanded = {}
    /\ written = {}
    /\ first_run = [done |-> FALSE, files |-> << >>, visited_links |-> {}]

\* ---------------------------------------------------------------- crawl()
\* lines 102-106: the loop test, the pop and the "already visited" branch
Pop(u) ==
    /\ pc = "loop"
    /\ u \in to_visit_links
    /\ to_visit_links' = to_visit_links \ {u}
    /\ current_url' = u
    /\ IF u \in visited_links
       THEN /\ pbar_n' = Min(pbar_n + 1, MaxPops)
            /\ pc' = "loop"
       ELSE /\ pbar_n' = pbar_n
            /\ pc' = "fetch"
    /\ UNCHANGED << root_url, domain_name, first_run, written,
                    visited_links, files, pbar_total,
                    page_links, site, attempts, marks, accepted, failed,
                    succeeded, pendingAtFail, expanded >>

\* a failing fetch that puts the URL back for another try
FetchFailRetry ==
    /\ pc = "fetch"
    /\ attempts' = [attempts EXCEPT ![current_url] = Min(@ + 1, CountCap)]
    /\ failed' = failed \cup {current_url}
    /\ pendingAtFail' = pendingAtFail \cup to_visit_links
    /\ to_visit_links' = to_visit_links \cup {current_url}
    /\ pbar_n' = Min(pbar_n + 1, MaxPops)
    /\ pc' = "loop"
    /\ UNCHANGED << root_url, domain_name, first_run, written,
                    visited_links, files, pbar_total,
                    current_url, page_links, site, marks, accepted, succeeded,
                    expanded >>

\* a failing fetch that leaves the loop (break for continue)
FetchFailBreak ==
    /\ pc = "fetch"
    /\ attempts' = [attempts EXCEPT ![current_url] = Min(@ + 1, CountCap)]
    /\ failed' = failed \cup {current_url}
    /\ pendingAtFail' = pendingAtFail \cup to_visit_links
    /\ pbar_n' = Min(pbar_n + 1, MaxPops)
    /\ pc' = "done"
    /\ UNCHANGED << root_url, domain_name, first_run, written,
                    visited_links, to_visit_links, files,
                    pbar_total, current_url, page_links, site, marks, accepted,
                    succeeded, expanded >>

\* lines 109-112: fetch_page returns None (requests.RequestException)
FetchFail ==
    /\ pc = "fetch"
    /\ attempts' = [attempts EXCEPT ![current_url] = Min(@ + 1, CountCap)]
    /\ failed' = failed \cup {current_url}
    /\ pendingAtFail' = pendingAtFail \cup to_visit_links
    /\ IF current_url.scheme \in {"http", "https"}
       THEN \E content \in PageChoices(urldefrag(current_url)) :
               site' = (urldefrag(current_url) :> content) @@ site
       ELSE site' = site
    /\ pbar_n' = Min(pbar_n + 1, MaxPops)
    /\ pc' = "loop"
    /\ UNCHANGED << root_url, domain_name, first_run, written,
                    visited_links, to_visit_links, files,
                    pbar_total, current_url, page_links, marks, accepted,
                    succeeded, expanded >>

\* lines 109-116, up to the call of find_links_on_page: fetch_page returns
\* the text (requests serves http and https only), the URL is added to
\* visited_links and saved
FetchOk ==
    /\ pc = "fetch"
    /\ current_url.scheme \in {"http", "https"}
    /\ \E content \in PageChoices(urldefrag(current_url)) :
          /\ site' = (urldefrag(current_url) :> content) @@ site
          /\ page_links' = content
    /\ attempts' = [attempts EXCEPT ![current_url] = Min(@ + 1, CountCap)]
    /\ visited_links' = visited_links \cup {current_url}
    /\ marks' = [marks EXCEPT ![current_url] = Min(@ + 1, CountCap)]
    /\ succeeded' = succeeded \cup {current_url}
    /\ files' = save_page_as_pdf(current_url)
    /\ written' = written_after(current_url)
    /\ pc' = "links"
    /\ UNCHANGED << root_url, domain_name, first_run,
                    to_visit_links, pbar_n, pbar_total,
                    current_url, accepted, failed, pendingAtFail, expanded >>

\* lines 129-134: one turn of the for loop of find_links_on_page
OfferLink ==
    /\ pc = "links"
    /\ page_links # << >>
    /\ LET url == urldefrag(urljoin(current_url, Head(page_links)))
       IN IF is_valid_url(url) /\ NotKnown(url)
          THEN /\ to_visit_links' = to_visit_links \cup {url}
               /\ accepted' = accepted \cup {url}
          ELSE UNCHANGED << to_visit_links, accepted >>
    /\ page_links' = Tail(page_links)
    /\ UNCHANGED << root_url, domain_name, first_run, written,
                    visited_links, files, pbar_n,
                    pbar_total, pc, current_url, site, attempts, marks, failed,
                    succeeded, pendingAtFail, expanded >>

\* lines 117-118: find_links_on_page has returned
EndIteration ==
    /\ pc = "links"
    /\ page_links = << >>
    /\ expanded' = expanded \cup {current_url}
    /\ pbar_total' = Cardinality(to_visit_links) + Cardinality(visited_links)
    /\ pbar_n' = Min(pbar_n + 1, MaxPops)
    /\ pc' = "loop"
    /\ UNCHANGED << root_url, domain_name, first_run, written,
                    visited_links, to_visit_links, files,
                    current_url, page_links, site, attempts, marks, accepted,
                    failed, succeeded, pendingAtFail >>

\* line 102: to_visit_links is empty, crawl() returns
Finish ==
    /\ pc = "loop"
    /\ to_visit_links = {}
    /\ pc' = "done"
    /\ UNCHANGED << root_url, domain_name, first_run, written,
                    visited_links, to_visit_links, files,
                    pbar_n, pbar_total, current_url, page_links, site, attempts,
                    marks, accepted, failed, succeeded, pendingAtFail, expanded >>

Next ==
    \/ \E u \in to_visit_links : Pop(u)
    \/ FetchFail
    \/ FetchOk
    \/ OfferLink
    \/ EndIteration
    \/ Finish

Spec == Init /\ [][Next]_vars

\* the interpreter keeps running crawl() until it returns
FairSpec == Spec /\ WF_vars(Next)

\* ---------------------------------------------------------------- a failing render
\* lines 109-115 when pdfkit.from_url raises (wkhtmltopdf reports an error):
\* save_page_as_pdf and crawl() catch nothing, the exception ends the program
RenderFail ==
    /\ pc = "fetch"
    /\ current_url.scheme \in {"http", "https"}
    /\ ~pdf_exists(get_pdf_filename(current_url))
    /\ \E content \in PageChoices(urldefrag(current_url)) :
          site' = (urldefrag(current_url) :> content) @@ site
    /\ attempts' = [attempts EXCEPT ![current_url] = Min(@ + 1, CountCap)]
    /\ visited_links' = visited_links \cup {current_url}
    /\ marks' = [marks EXCEPT ![current_url] = Min(@ + 1, CountCap)]
    /\ succeeded' = succeeded \cup {current_url}
    /\ pc' = "crashed"
    /\ UNCHANGED << root_url, domain_name, first_run, written,
                    to_visit_links, files, pbar_n, pbar_total, current_url,
                    page_links, accepted, failed, pendingAtFail, expanded >>

NextRender ==
    \/ \E u \in to_visit_links : Pop(u)
    \/ FetchFail
    \/ FetchOk
    \/ RenderFail
    \/ OfferLink
    \/ EndIteration
    \/ Finish

\* the crawl with a renderer that may fail
RenderSpec == Init /\ [][NextRender]_vars

\* ---------------------------------------------------------------- a second run
\* the program is started again with the same root URL once the first run
\* has returned: a new WebsiteCrawler (lines 151, 36-47) over the same site
\* and the files the first run left in the output directory
Rerun ==
    /\ pc = "done"
    /\ ~first_run.done
    /\ first_run' = [done |-> TRUE, files |-> files,
                     visited_links |-> visited_links]
    /\ visited_links' = {}
    /\ to_visit_links' = {root_url}
    /\ pbar_n' = 0
    /\ pbar_total' = 1
    /\ pc' = "loop"
    /\ current_url' = NoURL
    /\ page_links' = << >>
    /\ attempts' = [u \in AllURLs |-> 0]
    /\ marks' = [u \in AllURLs |-> 0]
    /\ accepted' = {root_url}
    /\ pendingAtFail' = {}
    /\ expanded' = {}
    /\ written' = {}
    /\ UNCHANGED << root_url, domain_name, files, site, failed, succeeded >>

\* fetch outcomes that are a fixed function of the URL: a URL that was
\* fetched once is never refused later, and the reverse
FetchFailSame == current_url \notin succeeded /\ FetchFail

FetchOkSame == current_url \notin failed /\ FetchOk

NextRerun ==
    \/ \E u \in to_visit_links : Pop(u)
    \/ FetchFailSame
    \/ FetchOkSame
    \/ OfferLink
    \/ EndIteration
    \/ Finish
    \/ Rerun

\* two runs of the program over a static site with fixed fetch outcomes
RerunSpec == Init /\ [][NextRerun]_vars

\* ---------------------------------------------------------------- the link graph
\* in scope: http or https, on the host of the root
InScope(u) == u.scheme \in {"http", "https"} /\ u.netloc = root_url.netloc

\* the hrefs the server holds for a page (none for a page never requested)
LinksOf(page) == IF page \in DOMAIN site THEN site[page] ELSE << >>

\* every link of a page, resolved, without its fragment
Resolved(page) ==
    { urldefrag(urljoin(page, LinksOf(page)[i])) : i \in 1..Len(LinksOf(page)) }

\* the in-scope pages a page links to
Targets(page) == { t \in Resolved(page) : InScope(t) }

RECURSIVE Closure(_)
Closure(S) ==
    LET T == S \cup UNION { Targets(p) : p \in S }
    IN IF T = S THEN S ELSE Closure(T)

\* the normalized in-scope URLs reachable from the root by following links
Reachable == Closure({urldefrag(root_url)})

\* no reachable page reaches itself
Acyclic == \A p \in Reachable : p \notin Closure(Targets(p))

\* ---------------------------------------------------------------- claims

\* C1: in every state of a run, between two steps of the loop and inside
\* find_links_on_page, no URL is in both visited_links and to_visit_links.
C1_Disjoint == visited_links \cap to_visit_links = {}

\* inside find_links_on_page with both sets non-empty, a link to a visited
\* URL just ahead
C1_Witness ==
    /\ pc = "links"
    /\ page_links # << >>
    /\ urldefrag(urljoin(current_url, Head(page_links))) \in visited_links
    /\ to_visit_links # {}

\* C2: at the end of every loop iteration, every URL ever accepted into the
\* frontier is in exactly one of visited_links and to_visit_links.
C2_ExactlyOne ==
    pc \in {"loop", "done"} =>
        \A u \in accepted : (u \in visited_links) # (u \in to_visit_links)

\* C3: a URL is added to visited_links at most once in a run, and the URL
\* the loop pops is never already in visited_links.
C3_MarkedOnce ==
    /\ [](\A u \in AllURLs : marks[u] <= 1)
    /\ [][\A u \in AllURLs : Pop(u) => u \notin visited_links]_vars

\* a finished run in which a visited page linking to itself was expanded
C3_Witness ==
    /\ pc = "done"
    /\ \E u \in expanded : u \in Targets(u) /\ marks[u] = 1
    /\ Cardinality(visited_links) >= 2

\* C4: when every fetch succeeds, visited_links at Done is exactly the set of
\* normalized in-scope URLs reachable from the root, and each of them was
\* fetched, rendered and expanded exactly once.
C4_Complete ==
    (pc = "done" /\ failed = {}) =>
        /\ visited_links = Reachable
        /\ \A u \in Reachable :
              /\ attempts[u] = 1
              /\ u \in expanded
              /\ get_pdf_filename(u) \in DOMAIN files

C6_PopsEqualReachable ==
    (pc = "done" /\ Acyclic) => pbar_n = Cardinality(Reachable)

\* C6 amended: on an acyclic graph, when every fetch succeeds, the pops before
\* Done number the unique reachable in-domain URLs.
C6_PopsEqualReachableNoFailure ==
    (pc = "done" /\ Acyclic /\ failed = {}) => pbar_n = Cardinality(Reachable)

\* a finished failure-free run over an acyclic graph of three pages, one of
\* them linked twice
C6_Witness ==
    /\ pc = "done"
    /\ Acyclic
    /\ failed = {}
    /\ Cardinality(Reachable) >= 3
    /\ \E p, q \in Reachable : p # q /\ Targets(p) \cap Targets(q) # {}

\* C7: fetch_page is attempted at most once per URL in a run.
C7_FetchedOnce == \A u \in AllURLs : attempts[u] <= 1

\* C8: a candidate link on another host, or with a scheme other than http
\* and https, is never in to_visit_links, never fetched, never visited.
C8_ScopeExclusion ==
    \A u \in AllURLs :
        (u # root_url /\ (u.netloc # root_url.netloc \/ u.scheme \notin {"http", "https"}))
            => /\ u \notin to_visit_links
               /\ u \notin accepted
               /\ u \notin visited_links
               /\ attempts[u] = 0

\* an expanded page that links to another host and to an ftp URL
C8_Witness ==
    \E u \in expanded :
        /\ \E t \in Resolved(urldefrag(u)) : t.netloc # root_url.netloc
        /\ \E t \in Resolved(urldefrag(u)) : t.scheme = "ftp"

\* C9: of two URLs that differ only in their fragment, at most one is ever
\* fetched and added to visited_links.
C9_FragmentCollapse ==
    \A u, v \in AllURLs :
        (u # v /\ urldefrag(u) = urldefrag(v)) =>
            /\ ~(attempts[u] >= 1 /\ attempts[v] >= 1)
            /\ ~(u \in visited_links /\ v \in visited_links)

C11_RenderFailureTolerated == pc # "crashed"

\* C12 (RerunSpec): the second run over a static site writes no artifact;
\* the artifact store stays what the first run left.
C12_RerunWritesNothing ==
    first_run.done => (written = {} /\ files = first_run.files)

\* the second run is over, and it has saved at least two pages again
C12_Witness ==
    /\ first_run.done
    /\ pc = "done"
    /\ Cardinality(visited_links) >= 2
    /\ Cardinality(DOMAIN files) >= 2

\* C13 as stated: at Done every visited URL has an artifact written from
\* that URL (so no two visited URLs share an artifact key).
C13_OneToOne ==
    pc = "done" =>
        \A u \in visited_links :
            /\ get_pdf_filename(u) \in DOMAIN files
            /\ files[get_pdf_filename(u)] = u

\* C13 amended: at Done every visited URL has an artifact under its key,
\* written from a visited URL with that same key, and every artifact was
\* written from a visited URL.
C13_ArtifactPerKey ==
    pc = "done" =>
        /\ \A u \in visited_links :
              /\ get_pdf_filename(u) \in DOMAIN files
              /\ files[get_pdf_filename(u)] \in visited_links
              /\ get_pdf_filename(files[get_pdf_filename(u)]) = get_pdf_filename(u)
        /\ \A f \in DOMAIN files : files[f] \in visited_links

\* a finished run in which two visited URLs share one artifact key
C13_Witness ==
    /\ pc = "done"
    /\ \E u, v \in visited_links :
          u # v /\ get_pdf_filename(u) = get_pdf_filename(v)

\* C14: when fetch_page(u) is called u is already in visited_links, and it
\* is still there after the fetch has failed.
C14_VisitedBeforeFetch ==
    /\ pc = "fetch" => current_url \in visited_links
    /\ (pc = "loop" /\ current_url \in failed) => current_url \in visited_links

\* C15: every URL in to_visit_links or visited_links, the root included, is
\* without fragment and in scope.
C15_SeedNormalizedInScope ==
    \A u \in to_visit_links \cup visited_links :
        /\ u.fragment = ""
        /\ u.scheme \in {"http", "https"}
        /\ u.netloc = root_url.netloc

\* C16: after every loop iteration, successful or not, pbar.total is
\* |visited_links| + |to_visit_links|.
C16_TotalIsKnown ==
    (pc \in {"loop", "done"} /\ pbar_n >= 1) =>
        pbar_total = Cardinality(visited_links) + Cardinality(to_visit_links)

\* C17: an iteration whose fetch fails renders nothing and extracts no link:
\* visited_links, the files and what is left of to_visit_links after the pop
\* stay as they are, and the loop goes on.
C17_FailedIterationFrame ==
    /\ [][(pc = "fetch" /\ current_url \notin succeeded') =>
             /\ pc' = "loop"
             /\ visited_links' = visited_links
             /\ to_visit_links' = to_visit_links
             /\ files' = files
             /\ written' = written
             /\ accepted' = accepted
             /\ expanded' = expanded]_vars
    /\ [][(pc = "loop" /\ pc' = "fetch") =>
             /\ visited_links' = visited_links
             /\ files' = files
             /\ to_visit_links' = to_visit_links \ {current_url'}]_vars

\* a fetch has just failed with pages visited, files written and URLs pending
C17_Witness ==
    /\ pc = "loop"
    /\ current_url \in failed
    /\ current_url \notin succeeded
    /\ visited_links # {}
    /\ to_visit_links # {}
    /\ DOMAIN files # {}

\* C18: offering a link already in one of the two sets changes neither;
\* offering another in-scope link adds just that URL to to_visit_links; no
\* offer changes visited_links or adds more than one URL.
C18_OfferFrame ==
    [][(pc = "links" /\ page_links # << >>) =>
          LET url == urldefrag(urljoin(current_url, Head(page_links)))
              known == url \in visited_links \/ url \in to_visit_links
          IN /\ visited_links' = visited_links
             /\ known => to_visit_links' = to_visit_links
             /\ (~known /\ InScope(url)) =>
                    to_visit_links' = to_visit_links \cup {url}
             /\ Cardinality(to_visit_links') <= Cardinality(to_visit_links) + 1]_vars

\* inside find_links_on_page: one link of the page was accepted, and the next
\* one is a URL that is already pending
C18_Witness ==
    /\ pc = "links"
    /\ page_links # << >>
    /\ Len(page_links) < Len(LinksOf(urldefrag(current_url)))
    /\ urldefrag(urljoin(current_url, Head(page_links))) \in to_visit_links

\* C19: after every loop iteration pbar.n is at most pbar.total.
C19_NeverOvertakes ==
    pc \in {"loop", "done"} => pbar_n <= pbar_total

\* C20 (RerunSpec): with fetch outcomes and links fixed per URL, a run ends
\* with the same visited_links whatever the order of the pops: the second
\* run ends with the set the first run ended with.
C20_SameVisited ==
    (first_run.done /\ pc = "done") => visited_links = first_run.visited_links

\* both runs are over, three pages were visited and a fetch was refused
C20_Witness ==
    /\ first_run.done
    /\ pc = "done"
    /\ Cardinality(visited_links) >= 3
    /\ failed # {}

====
